---- MODULE Spec2Model ----
(***************************************************************************)
(* Cancellation flow of the dex settlement layer:                          *)
(*   program/src/processor/cancel_order.rs  (Accounts::parse,              *)
(*   Accounts::load_user_account, process, check_accounts)                 *)
(*   src/processor.rs                         (Processor::process_instruction) *)
(* An instruction runs to completion on working copies of the account      *)
(* buffers; the host then commits the buffers when the program returned    *)
(* Ok and discards them otherwise.                                         *)
(***************************************************************************)
EXTENDS Integers, Sequences, FiniteSets, TLC

VARIABLES user, marketData, register, pc, tx, cancelled

vars == <<user, marketData, register, pc, tx, cancelled>>

----------------------------------------------------------------------------
(* Bounds of the model.                                                    *)

\* largest value of the (scaled down) unsigned balance type; stands for u64::MAX
U64Max == 2
\* number of slots of the user's order slab
Capacity == 2
\* an account list differs from the well-formed one in at most MaxFaults places
MaxFaults == 2

----------------------------------------------------------------------------
(* Values.                                                                 *)

\* content of an empty slab slot
NoOrder == 0
\* the bit of an order identifier that encodes the side
SideFlag == 2

None == <<>>
Some(x) == <<x>>
IsSome(o) == Len(o) = 1
Val(o) == o[1]

Ok(v) == [err |-> "Ok", val |-> Some(v)]
Err(e) == [err |-> e, val |-> None]

ProgramId == "dex"
UserKey == "userAcct"
OwnerKeys == {"alice", "mallory"}
MarketKeys == {"mktA", "mktB", "junk"}
SignerKeys == {"pdaA", "rogueSigner"}
OrderbookKeys == {"obA", "obB"}
EngineKeys == {"aaob", "rogueProg"}

Sides == {"Bid", "Ask"}
Amounts == 0..U64Max
\* the identifiers the engine has issued: 1 is an ask, 2 is a bid
OrderIds == {1, 2}
Slots == 1..Capacity
\* order_index is zero based; Capacity and Capacity + 1 are out of range
Indexes == 0..(Capacity + 1)

OrderSummaries ==
    [side : Sides, total_asset_qty : Amounts, total_quote_qty : Amounts]

\* what the external engine answers to one cancel request: an error that
\* leaves the register untouched, or success with the register rewritten
EngineErrors == {"OrderNotFound", "EngineFailure"}
EngineOutcomes ==
    [ok : {FALSE}, err : EngineErrors, reg : {None}]
      \cup [ok : {TRUE}, err : {"Ok"},
            reg : {Some(s) : s \in OrderSummaries} \cup {None}]
NoCall == [ok |-> FALSE, err |-> "NoCall", reg |-> None]

\* what the register may hold when an instruction starts: nothing, or the
\* summary of some earlier request to the engine
StaleSummary ==
    [side |-> "Ask", total_asset_qty |-> U64Max, total_quote_qty |-> U64Max]
StaleRegisters == {None, Some(StaleSummary)}

----------------------------------------------------------------------------
(* Pure helpers.                                                           *)

checked_add(a, b) == IF a + b > U64Max THEN None ELSE Some(a + b)

checked_sub(a, b) == IF a < b THEN None ELSE Some(a - b)

get_side_from_order_id(order_id) ==
    IF (order_id \div SideFlag) % 2 = 1 THEN "Bid" ELSE "Ask"

\* as_usize with the index cut down to the width of the slab's range
as_usize_truncating(order_index) == order_index % Capacity

\* order_index as usize: usize is 64 bits wide on the target, so the cast
\* keeps every u64 value
as_usize(order_index) == order_index

check_signer(account) ==
    IF account.is_signer THEN "Ok" ELSE "MissingRequiredSignature"

check_account_key(account, key) ==
    IF account.key = key THEN "Ok" ELSE "InvalidAccountKey"

create_program_address(seed_key, nonce, program_id) ==
    IF program_id = ProgramId /\ seed_key = "mktA" /\ nonce = 255
    THEN Ok("pdaA")
    ELSE IF program_id = ProgramId /\ seed_key = "mktB" /\ nonce = 254
    THEN Ok("pdaB")
    ELSE Err("InvalidSeeds")

----------------------------------------------------------------------------
(* MarketState record and its fixed layout.                                *)

DexState_deserialize(buf) ==
    IF Len(buf) # 4 THEN Err("BorshIoError")
    ELSE Ok([tag |-> buf[1], signer_nonce |-> buf[2],
             orderbook |-> buf[3], aaob_program |-> buf[4]])

DexState_serialize(s) ==
    <<s.tag, s.signer_nonce, s.orderbook, s.aaob_program>>

DexState_check(s) ==
    IF s.tag = "Initialized" THEN Ok(s) ELSE Err("InvalidState")

----------------------------------------------------------------------------
(* UserAccount record and its fixed layout.                                *)

UserAccount_parse(buf) ==
    IF Len(buf) # 7 THEN Err("InvalidAccountData")
    ELSE Ok([header |-> [owner |-> buf[1], market |-> buf[2],
                         base_token_free |-> buf[3],
                         base_token_locked |-> buf[4],
                         quote_token_free |-> buf[5],
                         quote_token_locked |-> buf[6]],
             orders |-> buf[7]])

UserAccount_write(ua) ==
    <<ua.header.owner, ua.header.market,
      ua.header.base_token_free, ua.header.base_token_locked,
      ua.header.quote_token_free, ua.header.quote_token_locked,
      ua.orders>>

read_order(ua, index) ==
    IF index + 1 \notin DOMAIN ua.orders THEN Err("InvalidArgument")
    ELSE IF ua.orders[index + 1] = NoOrder THEN Err("InvalidArgument")
    ELSE Ok(ua.orders[index + 1])

remove_order(ua, index) ==
    IF index + 1 \notin DOMAIN ua.orders THEN Err("InvalidArgument")
    ELSE IF ua.orders[index + 1] = NoOrder THEN Err("InvalidArgument")
    ELSE Ok([ua EXCEPT !.orders[index + 1] = NoOrder])

----------------------------------------------------------------------------
(* cancel_order.rs                                                         *)

\* the account list of a CancelOrder instruction, in the order parse reads it
AccountList(aaob, market, signer, orderbook, owner, is_signer) ==
    << [key |-> aaob, is_signer |-> FALSE],
       [key |-> market, is_signer |-> FALSE],
       [key |-> signer, is_signer |-> FALSE],
       [key |-> orderbook, is_signer |-> FALSE],
       [key |-> "eventQueue", is_signer |-> FALSE],
       [key |-> "bids", is_signer |-> FALSE],
       [key |-> "asks", is_signer |-> FALSE],
       [key |-> UserKey, is_signer |-> FALSE],
       [key |-> owner, is_signer |-> is_signer] >>

\* Accounts_parse without the check_signer call
Accounts_parse_unsigned(program_id, accounts) ==
    IF Len(accounts) < 9 THEN Err("NotEnoughAccountKeys")
    ELSE Ok([aaob_program |-> accounts[1], market |-> accounts[2],
             market_signer |-> accounts[3], orderbook |-> accounts[4],
             event_queue |-> accounts[5], bids |-> accounts[6],
             asks |-> accounts[7], user |-> accounts[8],
             user_owner |-> accounts[9]])

\* Accounts::parse: nine next_account_info calls, then check_signer(..).unwrap()
Accounts_parse(program_id, accounts) ==
    IF Len(accounts) < 9 THEN Err("NotEnoughAccountKeys")
    ELSE LET a == [aaob_program |-> accounts[1], market |-> accounts[2],
                   market_signer |-> accounts[3], orderbook |-> accounts[4],
                   event_queue |-> accounts[5], bids |-> accounts[6],
                   asks |-> accounts[7], user |-> accounts[8],
                   user_owner |-> accounts[9]]
         IN IF check_signer(a.user_owner) # "Ok" THEN Err("Panic") ELSE Ok(a)

\* load_user_account without the comparison of the stored owner
load_user_account_any_owner(a, user_buf) ==
    LET parsed == UserAccount_parse(user_buf)
    IN IF parsed.err # "Ok" THEN parsed
       ELSE IF Val(parsed.val).header.market # a.market.key
       THEN Err("InvalidArgument")
       ELSE parsed

\* load_user_account without the comparison of the stored market
load_user_account_any_market(a, user_buf) ==
    LET parsed == UserAccount_parse(user_buf)
    IN IF parsed.err # "Ok" THEN parsed
       ELSE IF Val(parsed.val).header.owner # a.user_owner.key
       THEN Err("InvalidArgument")
       ELSE parsed

\* Accounts::load_user_account
load_user_account(a, user_buf) ==
    LET parsed == UserAccount_parse(user_buf)
    IN IF parsed.err # "Ok" THEN parsed
       ELSE IF Val(parsed.val).header.owner # a.user_owner.key
       THEN Err("InvalidArgument")
       ELSE IF Val(parsed.val).header.market # a.market.key
       THEN Err("InvalidArgument")
       ELSE parsed

\* check_accounts without the comparison of the order book
check_accounts_no_orderbook(program_id, market_state, a) ==
    LET market_signer == create_program_address(a.market.key,
                             market_state.signer_nonce, program_id)
    IN IF market_signer.err # "Ok" THEN market_signer.err
       ELSE IF check_account_key(a.market_signer, Val(market_signer.val)) # "Ok"
       THEN "Panic"
       ELSE IF check_account_key(a.aaob_program, market_state.aaob_program) # "Ok"
       THEN "Panic"
       ELSE "Ok"

\* check_accounts: the derivation is propagated with ?, each of the three
\* comparisons is unwrapped
check_accounts(program_id, market_state, a) ==
    LET market_signer == create_program_address(a.market.key,
                             market_state.signer_nonce, program_id)
    IN IF market_signer.err # "Ok" THEN market_signer.err
       ELSE IF check_account_key(a.market_signer, Val(market_signer.val)) # "Ok"
       THEN "Panic"
       ELSE IF check_account_key(a.orderbook, market_state.orderbook) # "Ok"
       THEN "Panic"
       ELSE IF check_account_key(a.aaob_program, market_state.aaob_program) # "Ok"
       THEN "Panic"
       ELSE "Ok"

\* invoke_signed with the engine's error dropped instead of propagated
invoke_signed_ignore_error(eng, reg) ==
    [err |-> "Ok", register |-> IF eng.ok THEN eng.reg ELSE reg]

\* invoke_signed of the engine's cancel_order: the engine's answer eng is the
\* environment's; on success the register holds what the engine wrote, on
\* failure it is untouched
invoke_signed(eng, reg) ==
    IF eng.ok THEN [err |-> "Ok", register |-> eng.reg]
    ELSE [err |-> eng.err, register |-> reg]

\* event_queue.read_register(): the register's content, absent or present
read_register(reg) == [err |-> "Ok", val |-> reg]

\* unlock_pair that credits the free balance and leaves the locked one
unlock_pair_keep_locked(free, locked, qty) ==
    LET new_free == checked_add(free, qty)
    IN IF ~IsSome(new_free)
       THEN [err |-> "Panic", free |-> free, locked |-> locked]
       ELSE [err |-> "Ok", free |-> Val(new_free), locked |-> locked]

\* unlock_pair with plain, unchecked subtraction on the locked balance
unlock_pair_unchecked(free, locked, qty) ==
    LET new_free == checked_add(free, qty)
    IN IF ~IsSome(new_free)
       THEN [err |-> "Panic", free |-> free, locked |-> locked]
       ELSE [err |-> "Ok", free |-> Val(new_free), locked |-> locked - qty]

\* one arm of the match on side: checked_add(..).unwrap() on the free
\* balance, then checked_sub(..).unwrap() on the locked balance; free and
\* locked are the in-memory fields when the arm ends or panics
unlock_pair(free, locked, qty) ==
    LET new_free == checked_add(free, qty)
    IN IF ~IsSome(new_free)
       THEN [err |-> "Panic", free |-> free, locked |-> locked]
       ELSE LET new_locked == checked_sub(locked, qty)
            IN IF ~IsSome(new_locked)
               THEN [err |-> "Panic", free |-> Val(new_free),
                     locked |-> locked]
               ELSE [err |-> "Ok", free |-> Val(new_free),
                     locked |-> Val(new_locked)]

\* unlock that matches on the side field of the summary, not on the side of
\* the identifier
unlock_by_summary_side(ua, side, order_summary) ==
    IF order_summary.side = "Bid"
    THEN LET r == unlock_pair(ua.header.quote_token_free,
                              ua.header.quote_token_locked,
                              order_summary.total_quote_qty)
         IN [err |-> r.err,
             val |-> [ua EXCEPT !.header.quote_token_free = r.free,
                                !.header.quote_token_locked = r.locked]]
    ELSE LET r == unlock_pair(ua.header.base_token_free,
                              ua.header.base_token_locked,
                              order_summary.total_asset_qty)
         IN [err |-> r.err,
             val |-> [ua EXCEPT !.header.base_token_free = r.free,
                                !.header.base_token_locked = r.locked]]

\* the match on side: a bid moves total_quote_qty on the quote balances, an
\* ask moves total_asset_qty on the base balances
unlock(ua, side, order_summary) ==
    IF side = "Bid"
    THEN LET r == unlock_pair(ua.header.quote_token_free,
                              ua.header.quote_token_locked,
                              order_summary.total_quote_qty)
         IN [err |-> r.err,
             val |-> [ua EXCEPT !.header.quote_token_free = r.free,
                                !.header.quote_token_locked = r.locked]]
    ELSE LET r == unlock_pair(ua.header.base_token_free,
                              ua.header.base_token_locked,
                              order_summary.total_asset_qty)
         IN [err |-> r.err,
             val |-> [ua EXCEPT !.header.base_token_free = r.free,
                                !.header.base_token_locked = r.locked]]

\* remove_and_write with write() called before remove_order
write_before_remove(user_account, order_index, buf) ==
    LET removed == remove_order(user_account, as_usize(order_index))
    IN IF removed.err # "Ok"
       THEN [err |-> removed.err, mem |-> user_account,
             buf |-> UserAccount_write(user_account)]
       ELSE [err |-> "Ok", mem |-> Val(removed.val),
             buf |-> UserAccount_write(user_account)]

\* remove_and_write that clears the first slot, not the slot at order_index
remove_first_and_write(user_account, order_index, buf) ==
    LET removed == remove_order(user_account, as_usize(0))
    IN IF removed.err # "Ok"
       THEN [err |-> removed.err, mem |-> user_account, buf |-> buf]
       ELSE [err |-> "Ok", mem |-> Val(removed.val),
             buf |-> UserAccount_write(Val(removed.val))]

\* user_account.remove_order(order_index as usize)?; user_account.write():
\* mem is the in-memory record, buf the user account's buffer
remove_and_write(user_account, order_index, buf) ==
    LET removed == remove_order(user_account, as_usize(order_index))
    IN IF removed.err # "Ok"
       THEN [err |-> removed.err, mem |-> user_account, buf |-> buf]
       ELSE [err |-> "Ok", mem |-> Val(removed.val),
             buf |-> UserAccount_write(Val(removed.val))]

\* repersist that writes the record back with its nonce reset
repersist_reset_nonce(market_data, key, market_state) ==
    [market_data EXCEPT ![key] =
        DexState_serialize([market_state EXCEPT !.signer_nonce = 0])]

\* market_state.serialize(&mut market_data).unwrap(): the record that was
\* decoded and checked is written over the front of the market account's
\* buffer, which it was decoded from and so is long enough; market_data maps
\* each market account to its buffer
repersist(market_data, key, market_state) ==
    LET bytes == DexState_serialize(market_state)
    IN [market_data EXCEPT ![key] =
           [i \in DOMAIN market_data[key] |->
               IF i <= Len(bytes) THEN bytes[i] ELSE market_data[key][i]]]

\* what one run of the handler leaves behind: its result, the steps it took,
\* the account buffers and the register as it left them, the in-memory
\* UserAccount, the identifier it read and the engine's answer (NoCall when
\* the engine was not called)
Outcome(res, ev, ubuf, mdata, reg, mem, oid, eng) ==
    [result |-> res, events |-> ev, user_buf |-> ubuf, market_data |-> mdata,
     register |-> reg, mem |-> mem, order_id |-> oid, eng |-> eng]

EvParse == <<"next_account_info">>
EvSigner == EvParse \o <<"check_signer">>
EvMarket == EvSigner \o <<"market_deserialize", "market_check">>
EvUser == EvMarket \o <<"load_user_account">>
EvPersist == EvUser \o <<"market_serialize">>
EvChecks == EvPersist \o <<"check_accounts">>
EvRead == EvChecks \o <<"read_order">>
EvInvoke == EvRead \o <<"invoke_signed">>
EvRegister == EvInvoke \o <<"read_register">>
EvUnlock == EvRegister \o <<"unlock">>
EvRemove == EvUnlock \o <<"remove_order">>
EvWrite == EvRemove \o <<"write">>

\* process_settle that writes the record as soon as the balances are
\* assigned, before the arithmetic is known to have succeeded
process_settle_eager_write(led, mdata, reg, user_account, order_index, order_id, eng) ==
    LET order_summary == read_register(reg)
    IN IF order_summary.err # "Ok" \/ ~IsSome(order_summary.val)
       THEN Outcome("Panic", EvRegister, led.user, mdata, reg,
                    Some(user_account), Some(order_id), eng)
       ELSE
       LET side == get_side_from_order_id(order_id)
           unlocked == unlock(user_account, side, Val(order_summary.val))
       IN IF unlocked.err # "Ok"
          THEN Outcome("Panic", EvUnlock, UserAccount_write(unlocked.val),
                       mdata, reg, Some(unlocked.val), Some(order_id), eng)
          ELSE
          LET done == remove_and_write(unlocked.val, order_index, led.user)
          IN Outcome(done.err, IF done.err = "Ok" THEN EvWrite ELSE EvRemove,
                     done.buf, mdata, reg, Some(done.mem), Some(order_id),
                     eng)

\* process, lines 132-175: after the engine returned success
process_settle(led, mdata, reg, user_account, order_index, order_id, eng) ==
    LET order_summary == read_register(reg)
    IN IF order_summary.err # "Ok" \/ ~IsSome(order_summary.val)
       THEN Outcome("Panic", EvRegister, led.user, mdata, reg,
                    Some(user_account), Some(order_id), eng)
       ELSE
       LET side == get_side_from_order_id(order_id)
           unlocked == unlock(user_account, side, Val(order_summary.val))
       IN IF unlocked.err # "Ok"
          THEN Outcome("Panic", EvUnlock, led.user, mdata, reg,
                       Some(unlocked.val), Some(order_id), eng)
          ELSE
          LET done == remove_and_write(unlocked.val, order_index, led.user)
          IN Outcome(done.err, IF done.err = "Ok" THEN EvWrite ELSE EvRemove,
                     done.buf, mdata, reg, Some(done.mem), Some(order_id),
                     eng)

\* process_cancel that settles with the register as it was before the call
process_cancel_stale_register(led, mdata, user_account, order_index, eng) ==
    LET order_id == read_order(user_account, as_usize(order_index))
    IN IF order_id.err # "Ok"
       THEN Outcome(order_id.err, EvRead, led.user, mdata, led.register,
                    Some(user_account), None, NoCall)
       ELSE
       LET called == invoke_signed(eng, led.register)
       IN IF called.err # "Ok"
          THEN Outcome(called.err, EvInvoke, led.user, mdata, called.register,
                       Some(user_account), order_id.val, eng)
          ELSE process_settle(led, mdata, led.register, user_account,
                              order_index, Val(order_id.val), eng)

\* process_cancel that hands the engine the identifier of the first slot
process_cancel_first_slot(led, mdata, user_account, order_index, eng) ==
    LET order_id == read_order(user_account, as_usize(0))
    IN IF order_id.err # "Ok"
       THEN Outcome(order_id.err, EvRead, led.user, mdata, led.register,
                    Some(user_account), None, NoCall)
       ELSE
       LET called == invoke_signed(eng, led.register)
       IN IF called.err # "Ok"
          THEN Outcome(called.err, EvInvoke, led.user, mdata, called.register,
                       Some(user_account), order_id.val, eng)
          ELSE process_settle(led, mdata, called.register, user_account,
                              order_index, Val(order_id.val), eng)

\* process, lines 104-130: read the slot and call the engine
process_cancel(led, mdata, user_account, order_index, eng) ==
    LET order_id == read_order(user_account, as_usize(order_index))
    IN IF order_id.err # "Ok"
       THEN Outcome(order_id.err, EvRead, led.user, mdata, led.register,
                    Some(user_account), None, NoCall)
       ELSE
       LET called == invoke_signed(eng, led.register)
       IN IF called.err # "Ok"
          THEN Outcome(called.err, EvInvoke, led.user, mdata, called.register,
                       Some(user_account), order_id.val, eng)
          ELSE process_settle(led, mdata, called.register, user_account,
                              order_index, Val(order_id.val), eng)

\* process with the cross-checks run before the UserAccount is loaded
process_checks_first(program_id, accounts, order_index, led, eng) ==
    LET parsed == Accounts_parse(program_id, accounts)
    IN IF parsed.err # "Ok"
       THEN Outcome(parsed.err,
                    IF parsed.err = "Panic" THEN EvSigner ELSE EvParse,
                    led.user, led.marketData, led.register, None, None, NoCall)
       ELSE
       LET a == Val(parsed.val)
           decoded == DexState_deserialize(led.marketData[a.market.key])
           market_state == IF decoded.err # "Ok" THEN decoded
                           ELSE DexState_check(Val(decoded.val))
       IN IF market_state.err # "Ok"
          THEN Outcome(market_state.err, EvMarket, led.user, led.marketData,
                       led.register, None, None, NoCall)
          ELSE
          LET checked == check_accounts(program_id, Val(market_state.val), a)
          IN IF checked # "Ok"
             THEN Outcome("Panic", EvMarket \o <<"check_accounts">>, led.user,
                          led.marketData, led.register, None, None, NoCall)
             ELSE
             LET user_account == load_user_account(a, led.user)
             IN IF user_account.err # "Ok"
                THEN Outcome(user_account.err,
                             EvMarket \o <<"check_accounts",
                                           "load_user_account">>,
                             led.user, led.marketData, led.register, None,
                             None, NoCall)
                ELSE process_cancel(led,
                                    repersist(led.marketData, a.market.key,
                                              Val(market_state.val)),
                                    Val(user_account.val), order_index, eng)

\* process, lines 90-102: parse, MarketState, UserAccount, re-persist,
\* cross-checks
process(program_id, accounts, order_index, led, eng) ==
    LET parsed == Accounts_parse(program_id, accounts)
    IN IF parsed.err # "Ok"
       THEN Outcome(parsed.err,
                    IF parsed.err = "Panic" THEN EvSigner ELSE EvParse,
                    led.user, led.marketData, led.register, None, None, NoCall)
       ELSE
       LET a == Val(parsed.val)
           decoded == DexState_deserialize(led.marketData[a.market.key])
           market_state == IF decoded.err # "Ok" THEN decoded
                           ELSE DexState_check(Val(decoded.val))
       IN IF market_state.err # "Ok"
          THEN Outcome(market_state.err, EvMarket, led.user, led.marketData,
                       led.register, None, None, NoCall)
          ELSE
          LET user_account == load_user_account(a, led.user)
          IN IF user_account.err # "Ok"
             THEN Outcome(user_account.err, EvUser, led.user, led.marketData,
                          led.register, None, None, NoCall)
             ELSE
             LET mdata == repersist(led.marketData, a.market.key,
                                    Val(market_state.val))
                 checked == check_accounts(program_id, Val(market_state.val), a)
             IN IF checked # "Ok"
                THEN Outcome("Panic", EvChecks, led.user, mdata, led.register,
                             user_account.val, None, NoCall)
                ELSE process_cancel(led, mdata, Val(user_account.val),
                                    order_index, eng)

\* whether this instruction gets as far as calling the engine
ReachesEngine(program_id, accounts, order_index, led) ==
    Len(process(program_id, accounts, order_index, led,
                [ok |-> FALSE, err |-> "EngineFailure", reg |-> None]).events)
      >= Len(EvInvoke)

----------------------------------------------------------------------------
(* processor.rs                                                            *)

\* try_from_slice that decodes the leading words and ignores what follows
try_from_slice_prefix(instruction_data) ==
    IF Len(instruction_data) < 2 THEN Err("BorshIoError")
    ELSE IF instruction_data[1] = 0
    THEN Ok([tag |-> "CreateMarket", params |-> instruction_data[2]])
    ELSE IF instruction_data[1] = 1
    THEN Ok([tag |-> "NewOrder", params |-> instruction_data[2]])
    ELSE IF instruction_data[1] = 2
    THEN Ok([tag |-> "ConsumeEvents", params |-> instruction_data[2]])
    ELSE IF instruction_data[1] = 3
    THEN Ok([tag |-> "CancelOrder", params |-> instruction_data[2]])
    ELSE IF instruction_data[1] = 4
    THEN Ok([tag |-> "Settle", params |-> instruction_data[2]])
    ELSE Err("BorshIoError")

\* DexInstruction::try_from_slice: a tag, then the variant's parameters (one
\* word here); anything else does not decode
try_from_slice(instruction_data) ==
    IF Len(instruction_data) # 2 THEN Err("BorshIoError")
    ELSE IF instruction_data[1] = 0
    THEN Ok([tag |-> "CreateMarket", params |-> instruction_data[2]])
    ELSE IF instruction_data[1] = 1
    THEN Ok([tag |-> "NewOrder", params |-> instruction_data[2]])
    ELSE IF instruction_data[1] = 2
    THEN Ok([tag |-> "ConsumeEvents", params |-> instruction_data[2]])
    ELSE IF instruction_data[1] = 3
    THEN Ok([tag |-> "CancelOrder", params |-> instruction_data[2]])
    ELSE IF instruction_data[1] = 4
    THEN Ok([tag |-> "Settle", params |-> instruction_data[2]])
    ELSE Err("BorshIoError")

\* process_instruction that returns Ok whatever the handler returned
process_instruction_swallow(program_id, accounts, instruction_data, led, eng, other) ==
    LET instruction == try_from_slice(instruction_data)
    IN IF instruction.err # "Ok"
       THEN [handler |-> "none",
             out |-> Outcome("InvalidInstructionData", <<>>, led.user,
                             led.marketData, led.register, None, None, NoCall)]
       ELSE IF Val(instruction.val).tag = "CancelOrder"
       THEN [handler |-> "cancel_order",
             out |-> [process(program_id, accounts,
                              Val(instruction.val).params, led, eng)
                        EXCEPT !.result = "Ok"]]
       ELSE [handler |-> Val(instruction.val).tag,
             out |-> Outcome("Ok", <<>>, led.user, led.marketData,
                             led.register, None, None, NoCall)]

\* Processor::process_instruction. eng is the engine's answer should the
\* cancel handler call it; other is the result of a handler that is not the
\* cancel handler (its effects on the accounts are outside this model)
process_instruction(program_id, accounts, instruction_data, led, eng, other) ==
    LET instruction == try_from_slice(instruction_data)
    IN IF instruction.err # "Ok"
       THEN [handler |-> "none",
             out |-> Outcome("InvalidInstructionData", <<>>, led.user,
                             led.marketData, led.register, None, None, NoCall)]
       ELSE IF Val(instruction.val).tag = "CancelOrder"
       THEN [handler |-> "cancel_order",
             out |-> process(program_id, accounts,
                             Val(instruction.val).params, led, eng)]
       ELSE [handler |-> Val(instruction.val).tag,
             out |-> Outcome(other, <<>>, led.user, led.marketData,
                             led.register, None, None, NoCall)]

----------------------------------------------------------------------------
(* The ledger and the host.                                                *)

Ledger == [user |-> user, marketData |-> marketData, register |-> register]

\* the host's all-or-nothing persistence: the buffers of an instruction that
\* returned Ok become the accounts, those of any other are discarded
Commit(led, out) ==
    IF out.result = "Ok"
    THEN [user |-> out.user_buf, marketData |-> out.market_data,
          register |-> out.register]
    ELSE led

NoTx ==
    [handler |-> "none", accounts |-> <<>>, instruction_data |-> <<>>,
     other |-> "None",
     out |-> Outcome("None", <<>>, <<>>, <<>>, None, None, None, NoCall)]

\* slabs hold each identifier at most once
Slabs ==
    {s \in [Slots -> {NoOrder} \cup OrderIds] :
        \A i, j \in Slots : (i # j /\ s[i] # NoOrder) => s[i] # s[j]}

InitialMarkets ==
    [m \in MarketKeys |->
        IF m = "mktA" THEN <<"Initialized", 255, "obA", "aaob">>
        ELSE IF m = "mktB" THEN <<"Initialized", 254, "obB", "aaob">>
        ELSE <<"Uninitialized", 0, "obA", "aaob">>]

Init ==
    /\ \E bf, bl, qf, ql \in Amounts, s \in Slabs :
          user = <<"alice", "mktA", bf, bl, qf, ql, s>>
    /\ marketData = InitialMarkets
    /\ register \in StaleRegisters
    /\ pc = "idle"
    /\ tx = NoTx
    /\ cancelled = {}

CanonicalAccounts ==
    AccountList("aaob", "mktA", "pdaA", "obA", "alice", TRUE)

\* the places where an account list departs from the well-formed one
Faults(accounts) ==
    {i \in 1..Len(accounts) : accounts[i] # CanonicalAccounts[i]}
      \cup (IF Len(accounts) < 9 THEN {0} ELSE {})

CancelAccountLists ==
    {l \in {AccountList(aaob, market, signer, orderbook, owner, is_signer) :
              aaob \in EngineKeys, market \in MarketKeys,
              signer \in SignerKeys, orderbook \in OrderbookKeys,
              owner \in OwnerKeys, is_signer \in BOOLEAN}
            \cup {SubSeq(CanonicalAccounts, 1, 8)} :
        Cardinality(Faults(l)) <= MaxFaults}

Returned(accounts, instruction_data, eng, other) ==
    LET r == process_instruction(ProgramId, accounts, instruction_data,
                                 Ledger, eng, other)
    IN /\ tx' = [handler |-> r.handler, accounts |-> accounts,
                 instruction_data |-> instruction_data, other |-> other,
                 out |-> r.out]
       /\ pc' = "returned"
       /\ UNCHANGED <<user, marketData, register, cancelled>>

\* a CancelOrder instruction, with any account list and any order_index
CancelOrder ==
    /\ pc = "idle"
    /\ \E accounts \in CancelAccountLists, order_index \in Indexes :
          \E eng \in IF ReachesEngine(ProgramId, accounts, order_index, Ledger)
                     THEN EngineOutcomes ELSE {NoCall} :
             Returned(accounts, <<3, order_index>>, eng, "Ok")

\* an instruction of one of the four other handlers
OtherInstruction ==
    /\ pc = "idle"
    /\ \E t \in {0, 1, 2, 4}, other \in {"Ok", "HandlerError"} :
          Returned(CanonicalAccounts, <<t, 0>>, NoCall, other)

\* a payload that does not decode
MalformedInstruction ==
    /\ pc = "idle"
    /\ \E data \in {<<>>, <<3>>, <<5, 0>>, <<3, 0, 0>>} :
          Returned(CanonicalAccounts, data, NoCall, "Ok")

\* the host takes the instruction's result; until this user's next
\* instruction the engine's result region is left to the engine's other
\* clients
HostCommit ==
    /\ pc = "returned"
    /\ LET after == Commit(Ledger, tx.out)
       IN /\ user' = after.user
          /\ marketData' = after.marketData
    /\ register' \in StaleRegisters
    /\ pc' = "idle"
    /\ tx' = NoTx
    /\ UNCHANGED cancelled

Next ==
    \/ CancelOrder
    \/ OtherInstruction
    \/ MalformedInstruction
    \/ HostCommit

Spec == Init /\ [][Next]_vars

----------------------------------------------------------------------------
(* Sequences of instructions on one UserAccount, with a record of what has  *)
(* been cancelled. The variable cancelled is a history variable: no          *)
(* statement of the program reads it. Spec leaves it empty; SpecSeq keeps    *)
(* it.                                                                      *)

\* an account with nothing free and everything locked behind its resting
\* orders, and an empty register
InitSeq ==
    /\ \E s \in Slabs : user = <<"alice", "mktA", 0, U64Max, 0, U64Max, s>>
    /\ marketData = InitialMarkets
    /\ register = None
    /\ pc = "idle"
    /\ tx = NoTx
    /\ cancelled = {}

\* HostCommit, recording in cancelled the order_index of each committed
\* CancelOrder since the last committed NewOrder
HostCommitSeq ==
    /\ pc = "returned"
    /\ LET after == Commit(Ledger, tx.out)
       IN /\ user' = after.user
          /\ marketData' = after.marketData
    /\ register' \in StaleRegisters
    /\ pc' = "idle"
    /\ tx' = NoTx
    /\ cancelled' =
          IF tx.out.result # "Ok" THEN cancelled
          ELSE IF tx.handler = "cancel_order"
          THEN cancelled \cup {tx.instruction_data[2]}
          ELSE IF tx.handler = "NewOrder" THEN {}
          ELSE cancelled

NextSeq ==
    \/ CancelOrder
    \/ OtherInstruction
    \/ MalformedInstruction
    \/ HostCommitSeq

SpecSeq == InitSeq /\ [][NextSeq]_vars

----------------------------------------------------------------------------
(* Properties of the cancellation flow.                                    *)
(* In a state with pc = "returned" the variables user, marketData and      *)
(* register still hold the accounts as they were before the instruction,   *)
(* tx.out is what the handler left, and After is what the host persists.    *)

IsCancel == pc = "returned" /\ tx.handler = "cancel_order"
Happened(e) == \E i \in DOMAIN tx.out.events : tx.out.events[i] = e
After == Commit(Ledger, tx.out)
Pre == Val(UserAccount_parse(user).val)
Post == Val(UserAccount_parse(After.user).val)
Mem == Val(tx.out.mem)
TxIndex == tx.instruction_data[2]
Reported == Val(tx.out.eng.reg)

\* the instruction's inputs against the steps of the handler
FullList == Len(tx.accounts) = 9
Signed == FullList /\ tx.accounts[9].is_signer
TxMarket == tx.accounts[2].key
MarketOk == Signed /\ marketData[TxMarket][1] = "Initialized"
OwnerDiffers == FullList /\ Pre.header.owner # tx.accounts[9].key
UserOk ==
    MarketOk /\ ~OwnerDiffers /\ Pre.header.market = TxMarket
Derived ==
    create_program_address(TxMarket, marketData[TxMarket][2], ProgramId)
CrossChecksPass ==
    /\ Derived.err = "Ok"
    /\ tx.accounts[3].key = Val(Derived.val)
    /\ tx.accounts[4].key = marketData[TxMarket][3]
    /\ tx.accounts[1].key = marketData[TxMarket][4]
SlotOccupied ==
    /\ TxIndex + 1 \in DOMAIN Pre.orders
    /\ Pre.orders[TxIndex + 1] # NoOrder
Untouched == After.user = user /\ After.marketData = marketData

\* the side of the order being cancelled, and the balances of that side
OrderSide == get_side_from_order_id(Pre.orders[TxIndex + 1])
Free(ua) ==
    IF OrderSide = "Bid" THEN ua.header.quote_token_free
    ELSE ua.header.base_token_free
Locked(ua) ==
    IF OrderSide = "Bid" THEN ua.header.quote_token_locked
    ELSE ua.header.base_token_locked
ReportedQty ==
    IF OrderSide = "Bid" THEN Reported.total_quote_qty
    ELSE Reported.total_asset_qty
BaseKept ==
    /\ Post.header.base_token_free = Pre.header.base_token_free
    /\ Post.header.base_token_locked = Pre.header.base_token_locked
QuoteKept ==
    /\ Post.header.quote_token_free = Pre.header.quote_token_free
    /\ Post.header.quote_token_locked = Pre.header.quote_token_locked

\* C1 (Conservation): a successful CancelOrder raises the free balance of the
\* order's side (quote for a bid, base for an ask) by exactly what it takes
\* from the locked balance of that side, and that amount is the quantity the
\* engine reported for that side; and after every cancel instruction,
\* successful or failed, free + locked of each asset is what it was before.
C1_Conservation ==
    IsCancel =>
      /\ Post.header.base_token_free + Post.header.base_token_locked
           = Pre.header.base_token_free + Pre.header.base_token_locked
      /\ Post.header.quote_token_free + Post.header.quote_token_locked
           = Pre.header.quote_token_free + Pre.header.quote_token_locked
      /\ tx.out.result = "Ok" =>
           /\ Free(Post) - Free(Pre) = Locked(Pre) - Locked(Post)
           /\ Free(Post) - Free(Pre) = ReportedQty

\* Scenario A: nothing free, everything locked, a bid whose whole locked
\* amount the engine reports back
C1_Witness ==
    /\ IsCancel /\ tx.out.result = "Ok" /\ OrderSide = "Bid"
    /\ Pre.header.quote_token_free = 0
    /\ Pre.header.quote_token_locked = U64Max
    /\ Reported.total_quote_qty = U64Max
    /\ Post.header.quote_token_free = U64Max
    /\ Post.header.quote_token_locked = 0
    /\ Post.orders[TxIndex + 1] = NoOrder

\* C2 (Atomicity on engine failure): when the engine's cancel call fails, the
\* instruction fails with the engine's error, the persisted UserAccount and
\* MarketState are those from before the instruction, the slot at order_index
\* is still occupied and the result register is not read.
C2_EngineFailureAtomic ==
    (IsCancel /\ Happened("invoke_signed") /\ ~tx.out.eng.ok) =>
      /\ tx.out.result = tx.out.eng.err
      /\ Untouched
      /\ Post.orders[TxIndex + 1] = Pre.orders[TxIndex + 1]
      /\ Post.orders[TxIndex + 1] # NoOrder
      /\ ~Happened("read_register")

\* Scenario B: the engine answers "order not found"
C2_Witness ==
    /\ IsCancel /\ Happened("invoke_signed")
    /\ tx.out.eng.err = "OrderNotFound"
    /\ tx.out.result = "OrderNotFound"

C4_CrossChecksTyped ==
    (IsCancel /\ UserOk /\ ~CrossChecksPass) =>
      /\ tx.out.result = "InvalidAccountKey"
      /\ ~Happened("invoke_signed")

\* C5 (Absence handling): a CancelOrder whose order_index is out of the slab's
\* range or names an empty slot fails before any engine call and leaves
\* UserAccount and MarketState unchanged; the error is InvalidArgument once
\* the steps that run before the slot is read have passed.
C5_AbsentSlotRejected ==
    (IsCancel /\ ~SlotOccupied) =>
      /\ tx.out.result # "Ok"
      /\ ~Happened("invoke_signed")
      /\ Untouched
      /\ (UserOk /\ CrossChecksPass) => tx.out.result = "InvalidArgument"

\* Scenario C: an index beyond the slab's capacity, everything else in order
C5_Witness ==
    /\ IsCancel /\ UserOk /\ CrossChecksPass
    /\ TxIndex = Capacity + 1
    /\ tx.out.events = EvRead
    /\ tx.out.result = "InvalidArgument"

\* C6 (Non-negativity): every persisted balance is within 0..U64Max; and when
\* the engine reports a quantity greater than the locked balance of the
\* order's side, or one that overflows the free balance, the cancel panics,
\* write is not reached, the persisted UserAccount is the one from before,
\* and the free balance already credited in memory is not persisted.
C6_NonNegative ==
    pc = "returned" =>
      /\ Post.header.base_token_free \in Amounts
      /\ Post.header.base_token_locked \in Amounts
      /\ Post.header.quote_token_free \in Amounts
      /\ Post.header.quote_token_locked \in Amounts
      /\ (IsCancel /\ Happened("unlock")
            /\ (ReportedQty > Locked(Pre) \/ Free(Pre) + ReportedQty > U64Max)) =>
           /\ tx.out.result = "Panic"
           /\ ~Happened("write")
           /\ Untouched
           /\ Free(Pre) + ReportedQty <= U64Max =>
                /\ Free(Mem) = Free(Pre) + ReportedQty
                /\ Free(Post) = Free(Pre)

\* the engine reports more than is locked: credited in memory, then the panic
C6_Witness ==
    /\ IsCancel /\ Happened("unlock")
    /\ ReportedQty > Locked(Pre)
    /\ Free(Pre) + ReportedQty <= U64Max
    /\ tx.out.result = "Panic"
    /\ Free(Mem) > Free(Pre)
    /\ Free(Post) = Free(Pre)

\* C7 (Side correctness): a successful cancel of a bid-tagged identifier
\* leaves base_free and base_locked unchanged and moves the reported quote
\* quantity; a successful cancel of an ask-tagged identifier leaves quote_free
\* and quote_locked unchanged and moves the reported base quantity; the side
\* is the one of the identifier in the slot, whatever side the summary names.
C7_SideCorrect ==
    (IsCancel /\ tx.out.result = "Ok") =>
      IF get_side_from_order_id(Pre.orders[TxIndex + 1]) = "Bid"
      THEN /\ BaseKept
           /\ Post.header.quote_token_free
                = Pre.header.quote_token_free + Reported.total_quote_qty
      ELSE /\ QuoteKept
           /\ Post.header.base_token_free
                = Pre.header.base_token_free + Reported.total_asset_qty

\* a bid is cancelled while the summary names the ask side and a base quantity
C7_Witness ==
    /\ IsCancel /\ tx.out.result = "Ok"
    /\ get_side_from_order_id(Pre.orders[TxIndex + 1]) = "Bid"
    /\ Reported.side = "Ask"
    /\ Reported.total_asset_qty > 0
    /\ Reported.total_quote_qty > 0
    /\ Pre.header.base_token_locked >= Reported.total_asset_qty
    /\ BaseKept

\* C8 (Signer precondition): a CancelOrder whose user-owner account is not a
\* signer is rejected before MarketState or UserAccount is decoded, calls the
\* engine never, and leaves UserAccount and MarketState unchanged.
C8_SignerRequired ==
    (IsCancel /\ FullList /\ ~tx.accounts[9].is_signer) =>
      /\ tx.out.result # "Ok"
      /\ ~Happened("market_deserialize")
      /\ ~Happened("load_user_account")
      /\ ~Happened("invoke_signed")
      /\ Untouched

\* the owner's key is supplied unsigned, everything else is in order
C8_Witness ==
    /\ IsCancel /\ FullList /\ ~tx.accounts[9].is_signer
    /\ ~OwnerDiffers /\ SlotOccupied
    /\ Cardinality(Faults(tx.accounts)) = 1
    /\ tx.out.result = "Panic"

\* C9 (No partial cancellation): the UserAccount persisted after a CancelOrder
\* is the one from before the instruction, as on every failing path, or has
\* the slot at order_index cleared and the reported remainder moved from
\* locked to free, both together.
C9_NoPartialCancel ==
    IsCancel =>
      /\ tx.out.result # "Ok" => After.user = user
      /\ \/ After.user = user
         \/ /\ tx.out.result = "Ok"
            /\ SlotOccupied
            /\ Post.orders[TxIndex + 1] = NoOrder
            /\ Free(Post) = Free(Pre) + ReportedQty
            /\ Locked(Post) = Locked(Pre) - ReportedQty

\* both effects are there: the slot is cleared and a remainder has moved
C9_Witness ==
    /\ IsCancel /\ tx.out.result = "Ok"
    /\ ReportedQty > 0
    /\ Post.orders[TxIndex + 1] = NoOrder
    /\ Locked(Post) < Locked(Pre)
    /\ After.user # user

\* C10 (Postcondition frame): a successful CancelOrder(order_index) empties
\* the slot at order_index and no other slot, keeps the owner and the market
\* reference, and keeps the free/locked pair of at least one of the assets.
C10_Frame ==
    (IsCancel /\ tx.out.result = "Ok") =>
      /\ SlotOccupied
      /\ Post.orders = [Pre.orders EXCEPT ![TxIndex + 1] = NoOrder]
      /\ Post.header.owner = Pre.header.owner
      /\ Post.header.market = Pre.header.market
      /\ BaseKept \/ QuoteKept

\* the second slot is cancelled while the first one holds another order
C10_Witness ==
    /\ IsCancel /\ tx.out.result = "Ok"
    /\ TxIndex = 1
    /\ Pre.orders[1] # NoOrder
    /\ Post.orders[1] = Pre.orders[1]
    /\ Post.orders[2] = NoOrder
    /\ ReportedQty > 0

----------------------------------------------------------------------------
(* Properties of the router and of the order of the handler's steps.       *)

Malformed ==
    \/ Len(tx.instruction_data) # 2
    \/ tx.instruction_data[1] \notin 0..4

\* C11 (Router rejection): a payload whose tag is unrecognized or whose body
\* is malformed fails with InvalidInstructionData; no handler is dispatched,
\* no step of a handler runs, no account record is decoded and the accounts
\* are unchanged.
C11_RouterRejects ==
    (pc = "returned" /\ Malformed) =>
      /\ tx.out.result = "InvalidInstructionData"
      /\ tx.handler = "none"
      /\ tx.out.events = <<>>
      /\ tx.out.mem = None
      /\ tx.out.user_buf = user
      /\ tx.out.market_data = marketData
      /\ Untouched

\* a CancelOrder tag followed by one word too many
C11_Witness ==
    /\ pc = "returned"
    /\ tx.instruction_data = <<3, 0, 0>>
    /\ tx.handler = "none"
    /\ tx.out.result = "InvalidInstructionData"

MarketDiffers == FullList /\ Pre.header.market # TxMarket

Times(e) == Cardinality({i \in DOMAIN tx.out.events : tx.out.events[i] = e})

\* C14 (Single guarded external call): in every execution of CancelOrder the
\* engine's cancel request is issued at most once, and only after the signer
\* check on user-owner, the MarketState validation, the UserAccount
\* owner/market match, the three account cross-checks and the read of an
\* occupied slot at order_index have all succeeded in that instruction.
C14_SingleGuardedCall ==
    IsCancel =>
      /\ Times("invoke_signed") <= 1
      /\ tx.out.eng # NoCall => Happened("invoke_signed")
      /\ Happened("invoke_signed") =>
           /\ Signed /\ MarketOk /\ UserOk /\ CrossChecksPass /\ SlotOccupied
           /\ SubSeq(tx.out.events, 1, Len(EvInvoke)) = EvInvoke
           /\ tx.out.order_id = Some(Pre.orders[TxIndex + 1])

\* the engine was called, once, and refused
C14_Witness ==
    /\ IsCancel /\ Times("invoke_signed") = 1
    /\ tx.out.events = EvInvoke
    /\ tx.out.eng.err = "EngineFailure"
    /\ CrossChecksPass /\ SlotOccupied

C15_WitnessEmpty ==
    /\ IsCancel /\ register = Some(StaleSummary)
    /\ tx.out.eng.ok /\ tx.out.eng.reg = None
    /\ tx.out.result = "Panic"

\* C16 (Write is last and success-only): the UserAccount write happens at most
\* once per CancelOrder, only where the engine call, the register read, both
\* checked arithmetic operations and remove_order have all succeeded; nothing
\* changes the UserAccount after it, so the buffer holds the in-memory record
\* as the handler left it; and on every failing path write is not reached and
\* the buffer is as it was before the instruction.
C16_WriteLast ==
    IsCancel =>
      /\ Times("write") <= 1
      /\ Happened("write") <=> tx.out.result = "Ok"
      /\ Happened("write") =>
           /\ tx.out.events = EvWrite
           /\ tx.out.eng.ok /\ IsSome(tx.out.eng.reg)
           /\ checked_add(Free(Pre), ReportedQty) = Some(Free(Mem))
           /\ checked_sub(Locked(Pre), ReportedQty) = Some(Locked(Mem))
           /\ Mem.orders[TxIndex + 1] = NoOrder
           /\ tx.out.user_buf = UserAccount_write(Mem)
      /\ ~Happened("write") => tx.out.user_buf = user

\* the unlock was done in memory, the handler then failed, and the buffer
\* is still the one from before the instruction
C16_WitnessFailing ==
    /\ IsCancel /\ tx.out.events = EvUnlock
    /\ tx.out.result = "Panic"
    /\ Free(Mem) # Free(Pre)
    /\ tx.out.user_buf = user

\* a successful cancel whose single write carries the unlock and the removal
C16_Witness ==
    /\ IsCancel /\ Times("write") = 1
    /\ tx.out.events[Len(tx.out.events)] = "write"
    /\ tx.out.user_buf # user
    /\ ReportedQty > 0
    /\ tx.out.user_buf = UserAccount_write(Mem)

\* C17 (No double unlock): once a CancelOrder(i) has succeeded, every later
\* CancelOrder(i) on the same UserAccount with no order placement in between
\* fails without calling the engine and changes nothing, so a successful
\* cancel never names an index already cancelled and the remainder of one
\* resting order is unlocked at most once; the error is InvalidArgument once
\* the steps that run before the slot is read have passed.
C17_NoDoubleUnlock ==
    (IsCancel /\ TxIndex \in cancelled) =>
      /\ tx.out.result # "Ok"
      /\ ~Happened("invoke_signed")
      /\ ~Happened("unlock")
      /\ Untouched
      /\ (UserOk /\ CrossChecksPass) =>
           /\ tx.out.result = "InvalidArgument"
           /\ tx.out.events = EvRead

\* both orders of the account were cancelled one after the other, everything
\* that was locked is free, and the first index is cancelled again
C17_Witness ==
    /\ IsCancel /\ cancelled = {0, 1} /\ TxIndex = 0
    /\ UserOk /\ CrossChecksPass
    /\ Pre.header.base_token_free = U64Max
    /\ Pre.header.quote_token_free = U64Max
    /\ tx.out.result = "InvalidArgument"

\* C18 (Cancel only own orders): every cancel request this layer issues to the
\* engine names the identifier that occupies, when the request is made, the
\* slot at order_index of a UserAccount whose stored owner is the signing
\* caller and whose stored market is the supplied market, and it is signed by
\* the signer derived from that market.
C18_OwnOrdersOnly ==
    (IsCancel /\ Happened("invoke_signed")) =>
      /\ Signed
      /\ Pre.header.owner = tx.accounts[9].key
      /\ Pre.header.market = TxMarket
      /\ IsSome(tx.out.order_id)
      /\ Val(tx.out.order_id) # NoOrder
      /\ \E s \in DOMAIN Pre.orders : Pre.orders[s] = Val(tx.out.order_id)
      /\ Pre.orders[TxIndex + 1] = Val(tx.out.order_id)
      /\ tx.accounts[3].key = Val(Derived.val)

\* the owner cancels the order in the second slot while another order of
\* theirs rests in the first
C18_Witness ==
    /\ IsCancel /\ Happened("invoke_signed")
    /\ TxIndex = 1
    /\ Pre.orders[1] # NoOrder
    /\ tx.out.order_id = Some(Pre.orders[2])
    /\ tx.accounts[9] = [key |-> Pre.header.owner, is_signer |-> TRUE]

\* where step e stands in the instruction's sequence of steps
Pos(e) == CHOOSE i \in DOMAIN tx.out.events : tx.out.events[i] = e
Precedes(e, f) == Happened(f) => (Happened(e) /\ Pos(e) < Pos(f))

\* the error of the earliest failing step, steps taken in the order
\* MarketState, UserAccount, cross-checks, slot
EarliestFailureSurfaces ==
    /\ (Signed /\ ~MarketOk) =>
          tx.out.result = "InvalidState" /\ tx.out.events = EvMarket
    /\ (MarketOk /\ ~UserOk) =>
          tx.out.result = "InvalidArgument" /\ tx.out.events = EvUser
    /\ (UserOk /\ ~CrossChecksPass) =>
          tx.out.result # "Ok" /\ tx.out.events = EvChecks
    /\ (UserOk /\ CrossChecksPass /\ ~SlotOccupied) =>
          tx.out.result = "InvalidArgument" /\ tx.out.events = EvRead

\* C19 as stated (Step order): MarketState is validated and re-persisted
\* before the UserAccount is loaded and validated, the cross-checks run after
\* both, and the slot read runs after the cross-checks; with several faults
\* present the error surfaced is that of the earliest failing step.
C19_Original ==
    IsCancel =>
      /\ Precedes("market_check", "load_user_account")
      /\ Precedes("market_serialize", "load_user_account")
      /\ Precedes("load_user_account", "check_accounts")
      /\ Precedes("check_accounts", "read_order")
      /\ EarliestFailureSurfaces

\* C19 as amended: MarketState is validated before the UserAccount is loaded
\* and validated; MarketState is re-persisted after the UserAccount was
\* loaded and before the cross-checks; the cross-checks run after both loads,
\* and the slot read runs after the cross-checks; with several faults present
\* the failure surfaced is that of the earliest failing step in the order
\* MarketState, UserAccount, cross-checks, slot.
C19_StepOrder ==
    IsCancel =>
      /\ Precedes("market_check", "load_user_account")
      /\ Precedes("load_user_account", "market_serialize")
      /\ Precedes("market_serialize", "check_accounts")
      /\ Precedes("check_accounts", "read_order")
      /\ EarliestFailureSurfaces

\* three faults at once: another owner signs, the order book is not the
\* market's, and the slot is empty; the UserAccount's error is surfaced and
\* MarketState was not yet re-persisted
C19_Witness ==
    /\ IsCancel /\ MarketOk /\ OwnerDiffers
    /\ ~CrossChecksPass /\ ~SlotOccupied
    /\ tx.out.result = "InvalidArgument"
    /\ Happened("load_user_account") /\ ~Happened("market_serialize")

\* the handler a tag selects
HandlerOf(tag) ==
    IF tag = 0 THEN "CreateMarket"
    ELSE IF tag = 1 THEN "NewOrder"
    ELSE IF tag = 2 THEN "ConsumeEvents"
    ELSE IF tag = 3 THEN "cancel_order"
    ELSE "Settle"

\* C20 (Router dispatch): every well-formed payload is dispatched to exactly
\* one handler, the one its tag selects among CreateMarket, NewOrder,
\* ConsumeEvents, CancelOrder and Settle; what the router returns is what that
\* handler returned, success or error, unchanged; and the router keeps nothing
\* from one instruction to the next: what it returns is determined by the
\* payload, the accounts and the handler alone, and nothing of the
\* instruction is left once the host has taken its result.
C20_RouterDispatch ==
    /\ (pc = "returned" /\ ~Malformed) =>
         /\ tx.handler = HandlerOf(tx.instruction_data[1])
         /\ tx.handler = "cancel_order" =>
              tx.out = process(ProgramId, tx.accounts, TxIndex, Ledger,
                               tx.out.eng)
         /\ tx.handler # "cancel_order" =>
              /\ tx.out.result = tx.other
              /\ tx.out.events = <<>>
              /\ tx.out.user_buf = user
              /\ tx.out.market_data = marketData
    /\ pc = "idle" => tx = NoTx

\* a Settle payload whose handler fails: the router returns that error
C20_Witness ==
    /\ pc = "returned"
    /\ tx.instruction_data = <<4, 0>>
    /\ tx.handler = "Settle"
    /\ tx.other = "HandlerError"
    /\ tx.out.result = "HandlerError"

====
